---------------------------- MODULE Spec2Model ----------------------------
(***************************************************************************)
(* Hybrid answer evaluation and scoring engine of the AI examiner backend. *)
(*                                                                         *)
(*   backend/routers/exam.py     _evaluate_answer,                         *)
(*                               _evaluate_answer_with_openai,             *)
(*                               start_exam_session, submit_answer,        *)
(*                               complete_exam_session                     *)
(*   backend/routers/scoring.py  calculate_detailed_score,                 *)
(*                               calculate_comprehensive_score,            *)
(*                               get_score_report                          *)
(*                                                                         *)
(* Scores on the 0..10 scale are kept in tenths (8.5 is 85); a final score *)
(* is an exact fraction <<numerator, denominator>> in lowest terms.        *)
(* An oracle response text is a sequence of tokens: the characters and     *)
(* substrings the parser looks for, and the JSON fragments between them.   *)
(* An answer given to the matcher is a sequence of one-character strings.  *)
(***************************************************************************)
EXTENDS Integers, Sequences, FiniteSets, TLC

VARIABLES
    client,             \* exam.py module-level OpenAI client: TRUE = configured, FALSE = None
    pc,                 \* position inside one _evaluate_answer_with_openai call
    question_type,      \* argument of the call in progress
    simple_result,      \* verdict of _evaluate_answer for the call in progress
    fallback_response,  \* dict built before any oracle call
    attempt,            \* index into models_to_try of the loop (0-based, as enumerate)
    requests,           \* models requested so far in this call, in order
    responses,          \* oracle outcomes received so far in this call, in order
    result,             \* value returned by the call (NoResult while running)
    raised,             \* TRUE iff the call propagated an exception to its caller
    session,            \* the ExamSessionDB row (NoSession before start_exam_session)
    reply,              \* what the last HTTP handler returned
    student_answer,     \* _evaluate_answer_with_openai argument, a sequence of characters
    correct_answer,     \* _evaluate_answer_with_openai argument, a sequence of characters
    question_options,   \* _evaluate_answer_with_openai argument, a sequence of strings
    verdict,            \* what _evaluate_answer returned (NoVerdict before the call)
    detailed_score,     \* what calculate_detailed_score returned (NoScoreData before a call)
    score_calls,        \* number of calculate_detailed_score calls made on the session
    calls,              \* per submission: the locals of its _evaluate_answer_with_openai call
    served              \* per submission: the oracle's answers to that call's requests, in order

vars == <<client, pc, question_type, simple_result, fallback_response, attempt,
          requests, responses, result, raised, session, reply,
          student_answer, correct_answer, question_options, verdict,
          detailed_score, score_calls, calls, served>>

matchVars == <<student_answer, correct_answer, question_options, verdict>>

scoreVars == <<detailed_score, score_calls>>

concVars == <<calls, served>>

evalVars == <<pc, question_type, simple_result, fallback_response, attempt,
              requests, responses, result, raised>>

-----------------------------------------------------------------------------
(* Question types (models.py QuestionType) *)

QuestionTypes == {"multiple_choice", "true_false", "short_answer", "essay"}

ObjectiveTypes == {"multiple_choice", "true_false"}

-----------------------------------------------------------------------------
(* Oracle responses *)

\* Tokens of a response text.
\*   "{" "}"        the brace characters
\*   "FENCEJSON"    the substring that opens a json code fence (three backquotes, json)
\*   "FENCE"        three backquotes
\*   "score"        the member  "score": <the response's score value>
\*   "fbnum"        the members "feedback": 5, "reasoning": "r"
\*                  (a feedback that is not a string, with a non-empty reasoning)
\*   "num"          a bare JSON number
\*   "bad"          prose that is not JSON
\*   "ws"           whitespace
MemberTokens == {"score", "fbnum"}

\* Values of the "score" member after json.loads:
\*   num  a JSON number, v in tenths;  nan  the literal NaN (json.loads accepts it);
\*   str  a value float() rejects (a non-numeric string, null, a list)
Num(v) == [k |-> "num", v |-> v]
NaN == [k |-> "nan", v |-> 0]
NotNumber == [k |-> "str", v |-> 0]

ScoreNumbers == {-20, 0, 9, 10, 49, 50, 59, 60, 100, 250}

ScoreValues == {Num(v) : v \in ScoreNumbers} \cup {NaN, NotNumber}

PlainObject == <<"{", "score", "}">>
FencedObject == <<"FENCEJSON", "{", "score", "}", "FENCE">>

\* Texts tried with every score value.
ScoredTexts == {PlainObject, FencedObject}

\* Texts tried with one score value.
OtherTexts == {
    << >>,
    <<"bad">>,
    <<"num">>,
    <<"}", "{">>,
    <<"{", "}">>,
    <<"bad", "{", "score", "}", "bad">>,
    <<"{", "score", "fbnum", "}">>,
    <<"{", "score", "}", "{", "score", "}">>,
    <<"{", "score", "}", "FENCEJSON">>,
    <<"FENCEJSON", "FENCE", "{", "score", "}">>,
    <<"FENCEJSON", "ws", "FENCE", "{", "score", "}">>,
    <<"ws", "{", "ws", "score", "}", "ws">>,
    <<"{", "score", "}", "FENCEJSON", "bad", "FENCE">>,
    <<"FENCEJSON", "num", "FENCE", "{", "score", "}">>,
    <<"{", "score", "}", "FENCEJSON", "FENCEJSON">>,
    <<"{", "bad", "}", "FENCEJSON", "{", "score", "}", "FENCE">> }

Raise == [raises |-> TRUE, text |-> << >>, score |-> Num(0)]

Text(t, v) == [raises |-> FALSE, text |-> t, score |-> v]

Responses ==
    {Raise} \cup {Text(t, v) : t \in ScoredTexts, v \in ScoreValues}
            \cup {Text(t, Num(80)) : t \in OtherTexts}

-----------------------------------------------------------------------------
(* Python helpers used by the parser *)

\* str.find(tok, start) on a token sequence, 1-based; 0 when absent.
\* The text of a "FENCEJSON" token starts with the text of "FENCE".
Matches(tok, x) == x = tok \/ (tok = "FENCE" /\ x = "FENCEJSON")

Find(s, tok, start) ==
    LET hits == {i \in start..Len(s) : Matches(tok, s[i])}
    IN  IF hits = {} THEN 0 ELSE CHOOSE i \in hits : \A j \in hits : i <= j

\* str.rfind(tok), 1-based; 0 when absent.
RFind(s, tok) ==
    LET hits == {i \in 1..Len(s) : Matches(tok, s[i])}
    IN  IF hits = {} THEN 0 ELSE CHOOSE i \in hits : \A j \in hits : i >= j

\* str.strip(): leading and trailing whitespace removed.
Strip(s) ==
    LET solid == {i \in 1..Len(s) : s[i] # "ws"}
    IN  IF solid = {} THEN << >>
        ELSE SubSeq(s, CHOOSE i \in solid : \A j \in solid : i <= j,
                       CHOOSE i \in solid : \A j \in solid : i >= j)

\* json.loads on a candidate: "decode_error" (JSONDecodeError), a bare number,
\* or an object with the set of its members.  Whitespace between JSON tokens
\* is insignificant.
JsonLoads(cand) ==
    LET c == SelectSeq(cand, LAMBDA x : x # "ws")
    IN  IF c = <<"num">> THEN [kind |-> "number", members |-> {}]
        ELSE IF /\ Len(c) >= 2
                /\ c[1] = "{"
                /\ c[Len(c)] = "}"
                /\ \A i \in 2..(Len(c) - 1) : c[i] \in MemberTokens
             THEN [kind |-> "object", members |-> {c[i] : i \in 2..(Len(c) - 1)}]
             ELSE [kind |-> "decode_error", members |-> {}]

\* Comparisons of Python floats: every comparison with NaN is false.
PyLt(a, b) == a.k = "num" /\ b.k = "num" /\ a.v < b.v

\* min(a, b) and max(a, b) of Python: the first argument unless the second beats it.
PyMin(a, b) == IF PyLt(b, a) THEN b ELSE a

PyMax(a, b) == IF PyLt(a, b) THEN b ELSE a

-----------------------------------------------------------------------------
(* _evaluate_answer_with_openai: one tier attempt *)

NoResult == [score |-> -1, feedback |-> "", is_correct |-> FALSE]

\* The candidate the three extraction steps leave in json_content
\* (<< >> stands for None and for the empty string, both falsy).
ExtractJson(response_content) ==
    LET has(tok) == \E i \in 1..Len(response_content) : response_content[i] = tok
        start_idx == Find(response_content, "{", 1)
        end_idx == RFind(response_content, "}")
        s1 == IF has("{") /\ has("}")
              THEN SubSeq(response_content, start_idx, end_idx)
              ELSE << >>
        s2 == IF s1 = << >> THEN response_content ELSE s1
        start == Find(response_content, "FENCEJSON", 1) + 1
        end == Find(response_content, "FENCE", start)
    IN  IF has("FENCEJSON") /\ end > start
        THEN Strip(SubSeq(response_content, start, end - 1))
        ELSE s2

\* As Caught, with "except Exception" narrowed to the API error.
CaughtNarrow(exc) == exc \in {"JSONDecodeError", "APIError"}

\* The except clauses around the attempt: json.JSONDecodeError and Exception.
Caught(exc) == exc \in {"JSONDecodeError", "APIError", "AttributeError",
                        "ValueError", "TypeError"}

\* As FinalScore, without the binary rule for objective types.
FinalScoreNuanced(qtype, score) == PyMax(Num(10), PyMin(Num(100), score)).v

\* As FinalScore, without the lower clamp.
FinalScoreNoFloor(qtype, score) ==
    LET clamped == PyMin(Num(100), score).v
    IN  IF qtype \in ObjectiveTypes
        THEN (IF clamped >= 50 THEN 100 ELSE 0)
        ELSE clamped

\* score = max(1.0, min(10.0, score)), then the binary rule for objective types.
FinalScore(qtype, score) ==
    LET clamped == PyMax(Num(10), PyMin(Num(100), score)).v
    IN  IF qtype \in ObjectiveTypes
        THEN (IF clamped >= 50 THEN 100 ELSE 0)
        ELSE clamped

\* As IsCorrect, a subjective answer counted correct from the score the
\* objective rule uses, 5.0.
IsCorrectFromHalf(qtype, score) ==
    IF qtype \in ObjectiveTypes THEN score >= 100 ELSE score >= 50

IsCorrect(qtype, score) ==
    IF qtype \in ObjectiveTypes THEN score >= 100 ELSE score >= 60

\* As DefaultScore, the lowest score of the scale.
DefaultScoreLowest == Num(10)

\* The default of parsed_response.get("score", 5.0).
DefaultScore == Num(50)

\* The body of the try block for one model: the exception it raises ("none"
\* when it reaches the return) and the result it builds.
AttemptBody(qtype, response) ==
    LET json_content == ExtractJson(Strip(response.text))
        parsed_response == JsonLoads(json_content)
        raw == IF "score" \in parsed_response.members THEN response.score ELSE DefaultScore
        score == FinalScore(qtype, raw)
        fail(e) == [exc |-> e, result |-> NoResult]
    IN  IF response.raises THEN fail("APIError")
        ELSE IF json_content = << >> THEN fail("NoJson")
        ELSE IF parsed_response.kind = "decode_error" THEN fail("JSONDecodeError")
        ELSE IF parsed_response.kind # "object" THEN fail("AttributeError")
        ELSE IF raw.k = "str" THEN fail("ValueError")
        ELSE IF "fbnum" \in parsed_response.members THEN fail("TypeError")
        ELSE [exc |-> "none",
              result |-> [score |-> score,
                          feedback |-> "oracle feedback",
                          is_correct |-> IsCorrect(qtype, score)]]

\* What one iteration of the for loop does with a response:
\* "return" the result, "continue" with the next model, or "raise".
TierAttempt(qtype, response) ==
    LET body == AttemptBody(qtype, response)
    IN  IF body.exc = "none" THEN [do |-> "return", result |-> body.result]
        ELSE IF body.exc = "NoJson" \/ Caught(body.exc)
             THEN [do |-> "continue", result |-> NoResult]
             ELSE [do |-> "raise", result |-> NoResult]

-----------------------------------------------------------------------------
(* _evaluate_answer_with_openai: the call *)

models_to_try == <<"gpt-4o-mini", "gpt-3.5-turbo", "gpt-4o">>

\* As FallbackResponse, with the subjective scores of the oracle scale's middle.
FallbackResponseFlat(qtype, simple) ==
    [score |-> IF qtype \in ObjectiveTypes THEN (IF simple THEN 100 ELSE 0) ELSE 50,
     feedback |-> IF simple THEN "Correct answer" ELSE "Incorrect answer",
     is_correct |-> simple]

\* fallback_response, built from the verdict of _evaluate_answer.
FallbackResponse(qtype, simple) ==
    IF qtype \in ObjectiveTypes
    THEN [score |-> IF simple THEN 100 ELSE 0,
          feedback |-> IF simple THEN "Correct answer" ELSE "Incorrect answer",
          is_correct |-> simple]
    ELSE [score |-> IF simple THEN 85 ELSE 45,
          feedback |-> IF simple THEN "Answer appears correct"
                                 ELSE "Answer appears incorrect",
          is_correct |-> simple]

\* As EvalCall, without the client check before the loop.
EvalCallUnchecked(qtype, simple) ==
    /\ pc = "idle"
    /\ question_type' = qtype
    /\ simple_result' = simple
    /\ fallback_response' = FallbackResponse(qtype, simple)
    /\ attempt' = 0
    /\ requests' = << >>
    /\ responses' = << >>
    /\ raised' = FALSE
    /\ result' = NoResult
    /\ pc' = "loop"
    /\ UNCHANGED <<client, session, reply,
                   matchVars, scoreVars, concVars>>

\* Entry of the call up to the client check: the verdict of _evaluate_answer
\* on the submitted strings is the input simple; without a client the call
\* returns at once.
EvalCall(qtype, simple) ==
    /\ pc = "idle"
    /\ question_type' = qtype
    /\ simple_result' = simple
    /\ fallback_response' = FallbackResponse(qtype, simple)
    /\ attempt' = 0
    /\ requests' = << >>
    /\ responses' = << >>
    /\ raised' = FALSE
    /\ IF ~client
       THEN /\ result' = FallbackResponse(qtype, simple)
            /\ pc' = "returned"
       ELSE /\ result' = NoResult
            /\ pc' = "loop"
    /\ UNCHANGED <<client, session, reply,
                   matchVars, scoreVars, concVars>>

\* As TierRequest, re-issuing the request while the previous one is pending.
TierRequestRetry ==
    /\ pc \in {"loop", "waiting"}
    /\ attempt < Len(models_to_try)
    /\ Len(requests) < 4
    /\ requests' = Append(requests, models_to_try[attempt + 1])
    /\ pc' = "waiting"
    /\ UNCHANGED <<client, question_type, simple_result, fallback_response,
                   attempt, responses, result, raised, session, reply,
                   matchVars, scoreVars, concVars>>

\* client.chat.completions.create(model=...) is issued for the current model.
TierRequest ==
    /\ pc = "loop"
    /\ attempt < Len(models_to_try)
    /\ requests' = Append(requests, models_to_try[attempt + 1])
    /\ pc' = "waiting"
    /\ UNCHANGED <<client, question_type, simple_result, fallback_response,
                   attempt, responses, result, raised, session, reply,
                   matchVars, scoreVars, concVars>>

\* The request comes back (or raises) and the rest of the iteration runs; after
\* the last model the loop is left and fallback_response is returned.
TierResponse(response) ==
    /\ pc = "waiting"
    /\ responses' = Append(responses, response)
    /\ LET out == TierAttempt(question_type, response)
       IN  CASE out.do = "return" ->
                  /\ result' = out.result
                  /\ pc' = "returned"
                  /\ UNCHANGED <<attempt, raised>>
             [] out.do = "raise" ->
                  /\ raised' = TRUE
                  /\ pc' = "returned"
                  /\ UNCHANGED <<attempt, result>>
             [] out.do = "continue" ->
                  /\ attempt' = attempt + 1
                  /\ UNCHANGED raised
                  /\ IF attempt + 1 < Len(models_to_try)
                     THEN /\ pc' = "loop"
                          /\ UNCHANGED result
                     ELSE /\ result' = fallback_response
                          /\ pc' = "returned"
    /\ UNCHANGED <<client, question_type, simple_result, fallback_response,
                   requests, session, reply,
                   matchVars, scoreVars, concVars>>

\* The caller has the result; the next call may start.
EvalDone ==
    /\ pc = "returned"
    /\ pc' = "idle"
    /\ UNCHANGED <<client, question_type, simple_result, fallback_response,
                   attempt, requests, responses, result, raised, session, reply,
                   matchVars, scoreVars, concVars>>

\* The whole call as a function of the verdict and of the responses the
\* models would give (rs[k] for models_to_try[k]), as submit_answer awaits it:
\* the loop ends at the first model whose attempt does not continue.
RunTiers(qtype, fallback, rs) ==
    LET out == [k \in 1..Len(models_to_try) |-> TierAttempt(qtype, rs[k])]
        ends == {k \in 1..Len(models_to_try) : out[k].do # "continue"}
        last == CHOOSE k \in ends : \A j \in ends : k <= j
    IN  IF ends = {} THEN [raises |-> FALSE, result |-> fallback]
        ELSE IF out[last].do = "raise" THEN [raises |-> TRUE, result |-> NoResult]
        ELSE [raises |-> FALSE, result |-> out[last].result]

Evaluate(has_client, qtype, simple, rs) ==
    IF ~has_client THEN [raises |-> FALSE, result |-> FallbackResponse(qtype, simple)]
    ELSE RunTiers(qtype, FallbackResponse(qtype, simple), rs)

-----------------------------------------------------------------------------
(* _evaluate_answer_with_openai: calls of several submissions in progress *)

\* The submissions whose evaluations are in progress together.
Submissions == {"s1", "s2"}

\* What the oracle answers in these runs: an error, a parsed score on either
\* side of both thresholds, and prose.
SubmissionResponses == {Raise, Text(PlainObject, Num(60)),
                        Text(PlainObject, Num(49)), Text(<<"bad">>, Num(80))}

\* The locals of a call that has not started.
NotCalled == [pc |-> "idle", question_type |-> "short_answer",
              simple_result |-> FALSE, fallback_response |-> NoResult,
              attempt |-> 0, requests |-> << >>, responses |-> << >>,
              result |-> NoResult, raised |-> FALSE]

\* The locals of a call after a response came back and the iteration went
\* the way out (a value of TierAttempt): the return of the result, the
\* exception, the next model or, after the last one, the return of
\* fallback_response.
AfterResponse(local, response, out) ==
    IF out.do = "return"
    THEN [local EXCEPT !.responses = Append(@, response),
                       !.result = out.result, !.pc = "returned"]
    ELSE IF out.do = "raise"
    THEN [local EXCEPT !.responses = Append(@, response),
                       !.raised = TRUE, !.pc = "returned"]
    ELSE IF local.attempt + 1 < Len(models_to_try)
    THEN [local EXCEPT !.responses = Append(@, response),
                       !.attempt = @ + 1, !.pc = "loop"]
    ELSE [local EXCEPT !.responses = Append(@, response),
                       !.attempt = @ + 1, !.result = local.fallback_response,
                       !.pc = "returned"]

\* Entry of the call of submission c, as EvalCall: every name the function
\* assigns is a local of this call, the module-level client is only read.
SubmissionCall(c, qtype, simple) ==
    /\ calls[c].pc = "idle"
    /\ calls' = [calls EXCEPT ![c] =
                    [pc |-> IF client THEN "loop" ELSE "returned",
                     question_type |-> qtype,
                     simple_result |-> simple,
                     fallback_response |-> FallbackResponse(qtype, simple),
                     attempt |-> 0,
                     requests |-> << >>,
                     responses |-> << >>,
                     result |-> IF client THEN NoResult
                                          ELSE FallbackResponse(qtype, simple),
                     raised |-> FALSE]]
    /\ UNCHANGED <<client, evalVars, session, reply, matchVars, scoreVars, served>>

\* The call of submission c issues its request for the current model.
SubmissionRequest(c) ==
    /\ calls[c].pc = "loop"
    /\ calls[c].attempt < Len(models_to_try)
    /\ calls' = [calls EXCEPT ![c].requests = Append(@, models_to_try[calls[c].attempt + 1]),
                              ![c].pc = "waiting"]
    /\ UNCHANGED <<client, evalVars, session, reply, matchVars, scoreVars, served>>

\* As SubmissionResponse, the response going to a name shared by the calls:
\* every call that waits takes it as the answer to its own request.
SubmissionResponseShared(c, response) ==
    /\ calls[c].pc = "waiting"
    /\ served' = [served EXCEPT ![c] =
                     Append(@, [model |-> models_to_try[calls[c].attempt + 1],
                                response |-> response])]
    /\ \E outs \in {[d \in Submissions |-> TierAttempt(calls[d].question_type, response)]} :
          calls' = [d \in Submissions |->
                       IF calls[d].pc = "waiting"
                       THEN AfterResponse(calls[d], response, outs[d])
                       ELSE calls[d]]
    /\ UNCHANGED <<client, evalVars, session, reply, matchVars, scoreVars>>

\* client.chat.completions.create returns (or raises) in the call of
\* submission c: the response is the value of that call's own expression.
SubmissionResponse(c, response) ==
    /\ calls[c].pc = "waiting"
    /\ served' = [served EXCEPT ![c] =
                     Append(@, [model |-> models_to_try[calls[c].attempt + 1],
                                response |-> response])]
    /\ \E out \in {TierAttempt(calls[c].question_type, response)} :
          calls' = [calls EXCEPT ![c] = AfterResponse(calls[c], response, out)]
    /\ UNCHANGED <<client, evalVars, session, reply, matchVars, scoreVars>>

-----------------------------------------------------------------------------
(* Python strings: a string is a sequence of one-character strings *)

LowerCase == <<"a", "b", "c", "d", "e", "f", "g", "h", "i", "j", "k", "l", "m",
               "n", "o", "p", "q", "r", "s", "t", "u", "v", "w", "x", "y", "z">>

UpperCase == <<"A", "B", "C", "D", "E", "F", "G", "H", "I", "J", "K", "L", "M",
               "N", "O", "P", "Q", "R", "S", "T", "U", "V", "W", "X", "Y", "Z">>

Digits == {"0", "1", "2", "3", "4", "5", "6", "7", "8", "9"}

IsLower(c) == \E i \in DOMAIN LowerCase : LowerCase[i] = c

IsUpper(c) == \E i \in DOMAIN UpperCase : UpperCase[i] = c

\* str.lower() and str.upper()
Lower(s) ==
    [i \in 1..Len(s) |->
        IF IsUpper(s[i])
        THEN LowerCase[CHOOSE k \in DOMAIN UpperCase : UpperCase[k] = s[i]]
        ELSE s[i]]

Upper(s) ==
    [i \in 1..Len(s) |->
        IF IsLower(s[i])
        THEN UpperCase[CHOOSE k \in DOMAIN LowerCase : LowerCase[k] = s[i]]
        ELSE s[i]]

\* \s and \w of the re module
IsSpace(c) == c = " "

IsWordChar(c) == IsLower(c) \/ IsUpper(c) \/ c \in Digits \/ c = "_"

\* str.strip()
StripStr(s) ==
    LET solid == {i \in 1..Len(s) : ~IsSpace(s[i])}
    IN  IF solid = {} THEN << >>
        ELSE SubSeq(s, CHOOSE i \in solid : \A j \in solid : i <= j,
                       CHOOSE i \in solid : \A j \in solid : i >= j)

\* sub in s
Contains(sub, s) ==
    \E i \in 0..(Len(s) - Len(sub)) : SubSeq(s, i + 1, i + Len(sub)) = sub

\* set(s.split()): the maximal runs of characters that are not whitespace
Split(s) ==
    LET n == Len(s)
        starts == {i \in 1..n : ~IsSpace(s[i]) /\ (i = 1 \/ IsSpace(s[i - 1]))}
        stop(i) == CHOOSE j \in i..n :
                       /\ \A k \in i..j : ~IsSpace(s[k])
                       /\ (j = n \/ IsSpace(s[j + 1]))
    IN  {SubSeq(s, i, stop(i)) : i \in starts}

\* set(word.strip() for word in s.split() if len(word.strip()) > 2)
LongWords(s) == {w \in Split(s) : Len(w) > 2}

-----------------------------------------------------------------------------
(* exam.py: _evaluate_answer, the deterministic matcher *)

true_words == {<<"t", "r", "u", "e">>, <<"y", "e", "s">>,
               <<"c", "o", "r", "r", "e", "c", "t">>, <<"t">>}

false_words == {<<"f", "a", "l", "s", "e">>, <<"n", "o">>,
                <<"i", "n", "c", "o", "r", "r", "e", "c", "t">>, <<"f">>}

\* true_false: any(word in answer ...) is a substring test.
TrueFalseMatch(student, correct) ==
    LET student_is_true == \E word \in true_words : Contains(word, student)
        student_is_false == \E word \in false_words : Contains(word, student)
        correct_is_true == \E word \in true_words : Contains(word, correct)
    IN  \/ student_is_true /\ correct_is_true
        \/ student_is_false /\ ~correct_is_true

\* [A-D], [A-D1-4] and [A-Da-d1-4]
OptionLetters == {"A", "B", "C", "D"}

OptionChars == OptionLetters \cup {"1", "2", "3", "4"}

BoundedChars == OptionChars \cup {"a", "b", "c", "d"}

\* answer.upper().strip()
Normalized(s) == StripStr(Upper(s))

\* The letters strategy 1 collects from a normalized answer: \b[A-Da-d1-4]\b,
\* the four patterns ANSWER\s*(.), OPTION\s*(.), (.)\) and (.)\. , and every
\* [A-D] of an answer of at most 10 characters.
ExtractLetters(s) ==
    LET n == Len(s)
        bounded == {s[i] : i \in {i \in 1..n :
                        /\ s[i] \in BoundedChars
                        /\ (i = 1 \/ ~IsWordChar(s[i - 1]))
                        /\ (i = n \/ ~IsWordChar(s[i + 1]))}}
        after(word) == {s[j] : j \in {j \in 1..n :
                        /\ s[j] \in OptionChars
                        /\ \E i \in 1..j :
                              /\ i + Len(word) <= j
                              /\ SubSeq(s, i, i + Len(word) - 1) = word
                              /\ \A k \in (i + Len(word))..(j - 1) : IsSpace(s[k])}}
        before(c) == {s[i] : i \in {i \in 1..n :
                        s[i] \in OptionChars /\ i < n /\ s[i + 1] = c}}
        single == IF n <= 10 THEN {s[i] : i \in 1..n} \cap OptionLetters ELSE {}
    IN  bounded \cup after(<<"A", "N", "S", "W", "E", "R">>)
                \cup after(<<"O", "P", "T", "I", "O", "N">>)
                \cup before(")") \cup before(".") \cup single

\* correct_option_text: the first option with a letter of correct_letters among
\* its first three characters, upper-cased and stripped (<< >> for None).
CorrectOptionText(options, correct_letters) ==
    LET option_upper(k) == StripStr(Upper(options[k]))
        hits == {k \in 1..Len(options) :
                    \E i \in 1..Len(option_upper(k)) :
                        /\ i <= 3
                        /\ option_upper(k)[i] \in OptionLetters
                        /\ option_upper(k)[i] \in correct_letters}
    IN  IF hits = {} THEN << >>
        ELSE option_upper(CHOOSE k \in hits : \A j \in hits : k <= j)

\* correct_text_only: group 1 of ^[A-D]\)\s*(.+), stripped (<< >> for no match;
\* a stripped text of three characters or more ends in a character .+ matches).
CorrectTextOnly(correct_option_text) ==
    IF /\ Len(correct_option_text) >= 3
       /\ correct_option_text[1] \in OptionLetters
       /\ correct_option_text[2] = ")"
    THEN StripStr(SubSeq(correct_option_text, 3, Len(correct_option_text)))
    ELSE << >>

\* text_match of strategy 2, reached only with correct_words not empty.
TextMatch(correct_text_only, student_normalized) ==
    LET correct_words == LongWords(correct_text_only)
        student_words == LongWords(student_normalized)
        word_overlap == Cardinality(correct_words \cap student_words)
    IN  /\ correct_words # {}
        /\ \/ 10 * word_overlap >= 6 * Cardinality(correct_words)
           \/ Contains(correct_text_only, student_normalized)
           \/ Contains(student_normalized, correct_text_only)

\* As MultipleChoiceMatch, the student answer stripped but not upper-cased.
MultipleChoiceMatchCaseSensitive(student, correct, options) ==
    LET student_normalized == StripStr(student)
        correct_normalized == Normalized(correct)
        student_letters == ExtractLetters(student_normalized)
        correct_letters == ExtractLetters(correct_normalized)
        correct_text_only ==
            IF options = << >> THEN << >>
            ELSE CorrectTextOnly(CorrectOptionText(options, correct_letters))
    IN  IF student_letters \cap correct_letters # {}
        THEN [result |-> TRUE, stage |-> 1]
        ELSE IF correct_text_only # << >> /\ TextMatch(correct_text_only, student_normalized)
        THEN [result |-> TRUE, stage |-> 2]
        ELSE [result |-> \/ Contains(correct_normalized, student_normalized)
                         \/ Contains(student_normalized, correct_normalized)
                         \/ student_normalized = correct_normalized,
              stage |-> 3]

\* multiple_choice: the verdict and the strategy (1, 2 or 3) that returned it.
MultipleChoiceMatch(student, correct, options) ==
    LET student_normalized == Normalized(student)
        correct_normalized == Normalized(correct)
        student_letters == ExtractLetters(student_normalized)
        correct_letters == ExtractLetters(correct_normalized)
        correct_text_only ==
            IF options = << >> THEN << >>
            ELSE CorrectTextOnly(CorrectOptionText(options, correct_letters))
    IN  IF student_letters \cap correct_letters # {}
        THEN [result |-> TRUE, stage |-> 1]
        ELSE IF correct_text_only # << >> /\ TextMatch(correct_text_only, student_normalized)
        THEN [result |-> TRUE, stage |-> 2]
        ELSE [result |-> \/ Contains(correct_normalized, student_normalized)
                         \/ Contains(student_normalized, correct_normalized)
                         \/ student_normalized = correct_normalized,
              stage |-> 3]

\* normalize_text: lower-cased, every character that is neither \w nor \s
\* replaced by a space, the words longer than 2 characters as a set.
normalize_text(text) ==
    LET lowered == Lower(text)
        cleaned == [i \in 1..Len(lowered) |->
                       IF IsWordChar(lowered[i]) \/ IsSpace(lowered[i])
                       THEN lowered[i] ELSE " "]
    IN  LongWords(cleaned)

\* As KeywordVerdict, with the thresholds of the comment above the return:
\* overlap >= 30%, concept >= 40%, overlap >= 25%.
KeywordVerdictCommented(overlap, total, concept_matches, concepts) ==
    \/ 10 * overlap >= 3 * total
    \/ 10 * concept_matches >= 4 * concepts
    \/ 4 * overlap >= total

\* overlap_ratio >= 0.25 or concept_ratio >= 0.3 or overlap_ratio >= 0.4, the
\* ratios being overlap / total and concept_matches / concepts.
KeywordVerdict(overlap, total, concept_matches, concepts) ==
    \/ 4 * overlap >= total
    \/ 10 * concept_matches >= 3 * concepts
    \/ 10 * overlap >= 4 * total

\* concept_matches: the key concepts that contain or are contained in a
\* student keyword.
ConceptMatches(key_concepts, student_keywords) ==
    {concept \in key_concepts :
        \E student_word \in student_keywords :
            Contains(concept, student_word) \/ Contains(student_word, concept)}

\* short_answer and essay
KeywordMatch(student, correct) ==
    LET correct_keywords == normalize_text(correct)
        student_keywords == normalize_text(student)
        overlap == Cardinality(correct_keywords \cap student_keywords)
        total == Cardinality(correct_keywords)
        key_concepts == {word \in correct_keywords : Len(word) > 4}
        concept_matches == Cardinality(ConceptMatches(key_concepts, student_keywords))
    IN  IF correct_keywords = {} THEN FALSE
        ELSE IF key_concepts # {}
        THEN KeywordVerdict(overlap, total, concept_matches, Cardinality(key_concepts))
        ELSE KeywordVerdict(overlap, total, overlap, total)

\* The verdict and, for multiple_choice, the strategy that returned it (0 for
\* the other types).
_evaluate_answer(student, correct, qtype, options) ==
    IF qtype = "true_false"
    THEN [result |-> TrueFalseMatch(student, correct), stage |-> 0]
    ELSE IF qtype = "multiple_choice"
    THEN MultipleChoiceMatch(student, correct, options)
    ELSE [result |-> KeywordMatch(student, correct), stage |-> 0]

NoVerdict == [called |-> FALSE, result |-> FALSE, stage |-> 0]

-----------------------------------------------------------------------------
(* The matcher called on bounded inputs *)

\* Answers tried for true_false questions, as student and as correct answer:
\*   "true", "yes", "correct", "t", "false", "no"
\*   "incorrect", "f", "True", " YES ", "No", "yes correct"
\*   "no false", "yes no", "maybe", "", "   "
TrueFalseAnswers == {
    <<"t", "r", "u", "e">>,
    <<"y", "e", "s">>,
    <<"c", "o", "r", "r", "e", "c", "t">>,
    <<"t">>,
    <<"f", "a", "l", "s", "e">>,
    <<"n", "o">>,
    <<"i", "n", "c", "o", "r", "r", "e", "c", "t">>,
    <<"f">>,
    <<"T", "r", "u", "e">>,
    <<" ", "Y", "E", "S", " ">>,
    <<"N", "o">>,
    <<"y", "e", "s", " ", "c", "o", "r", "r", "e", "c", "t">>,
    <<"n", "o", " ", "f", "a", "l", "s", "e">>,
    <<"y", "e", "s", " ", "n", "o">>,
    <<"m", "a", "y", "b", "e">>,
    << >>,
    <<" ", " ", " ">> }

\* Student answers tried for multiple_choice questions:
\*   "b", "B", " B ", "c", "2", "a"
\*   "paris", "Paris", "london", "rome", "", "answer b"
\*   "the capital is paris", "berlin germany", "   ", "d"
ChoiceStudentAnswers == {
    <<"b">>,
    <<"B">>,
    <<" ", "B", " ">>,
    <<"c">>,
    <<"2">>,
    <<"a">>,
    <<"p", "a", "r", "i", "s">>,
    <<"P", "a", "r", "i", "s">>,
    <<"l", "o", "n", "d", "o", "n">>,
    <<"r", "o", "m", "e">>,
    << >>,
    <<"a", "n", "s", "w", "e", "r", " ", "b">>,
    <<"t", "h", "e", " ", "c", "a", "p", "i", "t", "a", "l", " ", "i", "s", " ", "p", "a", "r", "i", "s">>,
    <<"b", "e", "r", "l", "i", "n", " ", "g", "e", "r", "m", "a", "n", "y">>,
    <<" ", " ", " ">>,
    <<"d">> }

\* Correct answers tried for multiple_choice questions:
\*   "B) Paris", "B", "b", "Answer: B", "(C)", "option d"
\*   "2) Rome", "A. London", "", "Paris", "C) Rome", "D) Berlin"
ChoiceCorrectAnswers == {
    <<"B", ")", " ", "P", "a", "r", "i", "s">>,
    <<"B">>,
    <<"b">>,
    <<"A", "n", "s", "w", "e", "r", ":", " ", "B">>,
    <<"(", "C", ")">>,
    <<"o", "p", "t", "i", "o", "n", " ", "d">>,
    <<"2", ")", " ", "R", "o", "m", "e">>,
    <<"A", ".", " ", "L", "o", "n", "d", "o", "n">>,
    << >>,
    <<"P", "a", "r", "i", "s">>,
    <<"C", ")", " ", "R", "o", "m", "e">>,
    <<"D", ")", " ", "B", "e", "r", "l", "i", "n">> }

\* The options of the question: "A) London", "B) Paris", "C) Rome", "D) Berlin"
ParisOptions == <<
    <<"A", ")", " ", "L", "o", "n", "d", "o", "n">>,
    <<"B", ")", " ", "P", "a", "r", "i", "s">>,
    <<"C", ")", " ", "R", "o", "m", "e">>,
    <<"D", ")", " ", "B", "e", "r", "l", "i", "n">> >>

\* Correct answers tried for short_answer and essay questions:
\*   "", "a b", "cat dog", "Cat, dog!", "cat dog elephant giraffe", "cat dog elephant giraffe tiger"
\*   "alpha bravo charlie cat dog", "mitochondria produce ATP through oxidative phosphorylation"
KeywordCorrectAnswers == {
    << >>,
    <<"a", " ", "b">>,
    <<"c", "a", "t", " ", "d", "o", "g">>,
    <<"C", "a", "t", ",", " ", "d", "o", "g", "!">>,
    <<"c", "a", "t", " ", "d", "o", "g", " ", "e", "l", "e", "p", "h", "a", "n", "t", " ", "g", "i", "r", "a", "f", "f", "e">>,
    <<"c", "a", "t", " ", "d", "o", "g", " ", "e", "l", "e", "p", "h", "a", "n", "t", " ", "g", "i", "r", "a", "f", "f", "e", " ", "t", "i", "g", "e", "r">>,
    <<"a", "l", "p", "h", "a", " ", "b", "r", "a", "v", "o", " ", "c", "h", "a", "r", "l", "i", "e", " ", "c", "a", "t", " ", "d", "o", "g">>,
    <<"m", "i", "t", "o", "c", "h", "o", "n", "d", "r", "i", "a", " ", "p", "r", "o", "d", "u", "c", "e", " ", "A", "T", "P", " ", "t", "h", "r", "o", "u", "g", "h", " ", "o", "x", "i", "d", "a", "t", "i", "v", "e", " ", "p", "h", "o", "s", "p", "h", "o", "r", "y", "l", "a", "t", "i", "o", "n">> }

\* Student answers tried for short_answer and essay questions:
\*   "", "cat", "CAT.", "dog cat", "alph", "elephants"
\*   "zebra", "the mitochondria makes energy", "   "
KeywordStudentAnswers == {
    << >>,
    <<"c", "a", "t">>,
    <<"C", "A", "T", ".">>,
    <<"d", "o", "g", " ", "c", "a", "t">>,
    <<"a", "l", "p", "h">>,
    <<"e", "l", "e", "p", "h", "a", "n", "t", "s">>,
    <<"z", "e", "b", "r", "a">>,
    <<"t", "h", "e", " ", "m", "i", "t", "o", "c", "h", "o", "n", "d", "r", "i", "a", " ", "m", "a", "k", "e", "s", " ", "e", "n", "e", "r", "g", "y">>,
    <<" ", " ", " ">> }

\* "B) Paris"
BParis == <<"B", ")", " ", "P", "a", "r", "i", "s">>

\* "paris"
Paris == <<"p", "a", "r", "i", "s">>

\* "mitochondria produce ATP through oxidative phosphorylation"
MitochondriaCorrect ==
    <<"m", "i", "t", "o", "c", "h", "o", "n", "d", "r", "i", "a", " ", "p", "r", "o", "d", "u", "c", "e", " ", "A", "T", "P", " ", "t", "h", "r", "o", "u", "g", "h", " ", "o", "x", "i", "d", "a", "t", "i", "v", "e", " ", "p", "h", "o", "s", "p", "h", "o", "r", "y", "l", "a", "t", "i", "o", "n">>

\* "the mitochondria makes energy"
MitochondriaStudent ==
    <<"t", "h", "e", " ", "m", "i", "t", "o", "c", "h", "o", "n", "d", "r", "i", "a", " ", "m", "a", "k", "e", "s", " ", "e", "n", "e", "r", "g", "y">>

\* The calls tried: question_type, student_answer, correct_answer and
\* question_options as _evaluate_answer_with_openai receives them.
MatchInputs ==
    {[question_type |-> "true_false", student_answer |-> s, correct_answer |-> c,
      question_options |-> << >>] : s \in TrueFalseAnswers, c \in TrueFalseAnswers}
    \cup
    {[question_type |-> "multiple_choice", student_answer |-> s, correct_answer |-> c,
      question_options |-> o] :
          s \in ChoiceStudentAnswers, c \in ChoiceCorrectAnswers,
          o \in {<< >>, ParisOptions}}
    \cup
    {[question_type |-> t, student_answer |-> s, correct_answer |-> c,
      question_options |-> << >>] :
          t \in {"short_answer", "essay"},
          s \in KeywordStudentAnswers, c \in KeywordCorrectAnswers}

\* simple_result = _evaluate_answer(student_answer.lower().strip(),
\*                                  correct_answer.lower().strip(), ...)
MatchCall ==
    /\ pc = "idle"
    /\ ~verdict.called
    /\ \E v \in {_evaluate_answer(StripStr(Lower(student_answer)),
                                  StripStr(Lower(correct_answer)),
                                  question_type, question_options)} :
          /\ simple_result' = v.result
          /\ verdict' = [called |-> TRUE, result |-> v.result, stage |-> v.stage]
    /\ UNCHANGED <<client, pc, question_type, fallback_response, attempt, requests,
                   responses, result, raised, session, reply, student_answer,
                   correct_answer, question_options, scoreVars, concVars>>

-----------------------------------------------------------------------------
(* Exact arithmetic *)

Abs(x) == IF x < 0 THEN -x ELSE x

RECURSIVE Gcd(_, _)
Gcd(a, b) == IF b = 0 THEN a ELSE Gcd(b, a % b)

\* The fraction n/d (d > 0) in lowest terms.
Rat(n, d) == LET g == Gcd(Abs(n), d) IN <<n \div g, d \div g>>

\* round(n/d) to the nearest integer (n >= 0, d > 0), a tie going to the even
\* neighbour.  In the code the ties of round(x, 2) and round(x, 1) are decided
\* by the binary floating-point value of x, which lies a rounding error above
\* or below the exact tie; the model rounds the exact value.
Round(n, d) ==
    LET q == n \div d
        r == n % d
    IN  IF 2 * r < d THEN q
        ELSE IF 2 * r > d THEN q + 1
        ELSE IF q % 2 = 0 THEN q ELSE q + 1

RECURSIVE SumTo(_, _)
SumTo(f, n) == IF n = 0 THEN 0 ELSE f[n] + SumTo(f, n - 1)

-----------------------------------------------------------------------------
(* scoring.py: calculate_detailed_score *)

\* None of Python for the optional integers confidence_level and time_taken.
None == -1

\* final_score of a session that has none yet (None).
NoScore == << >>

Difficulties == 1..5

\* expected_time, the .get default for an unknown difficulty being 60.
ExpectedTime(difficulty) ==
    CASE difficulty = 1 -> 30
      [] difficulty = 2 -> 45
      [] difficulty = 3 -> 60
      [] difficulty = 4 -> 90
      [] difficulty = 5 -> 120
      [] OTHER -> 60

\* weight in tenths, the .get default being 1.5.
DifficultyWeight(difficulty) ==
    CASE difficulty = 1 -> 10
      [] difficulty = 2 -> 12
      [] difficulty = 3 -> 15
      [] difficulty = 4 -> 20
      [] difficulty = 5 -> 25
      [] OTHER -> 15

\* As TimeScore, with < in place of <= at both thresholds.
TimeScoreStrict(time_taken, difficulty) ==
    IF time_taken = 0 THEN 5
    ELSE IF time_taken < ExpectedTime(difficulty) THEN 10
    ELSE IF time_taken < ExpectedTime(difficulty) * 2 THEN 8
    ELSE 6

\* time_score in tenths (time_taken is an integer here).
TimeScore(time_taken, difficulty) ==
    IF time_taken = 0 THEN 5
    ELSE IF time_taken <= ExpectedTime(difficulty) THEN 10
    ELSE IF time_taken <= ExpectedTime(difficulty) * 2 THEN 8
    ELSE 6

\* As ConfidenceAccuracy, the medium confidence counted as high and as low.
ConfidenceAccuracyLenient(is_correct, confidence) ==
    IF is_correct /\ confidence >= 3 THEN 10
    ELSE IF ~is_correct /\ confidence <= 3 THEN 8
    ELSE 3

\* The value appended to confidence_accuracy, in tenths (confidence is an integer here).
ConfidenceAccuracy(is_correct, confidence) ==
    IF is_correct /\ confidence >= 4 THEN 10
    ELSE IF ~is_correct /\ confidence <= 2 THEN 8
    ELSE IF is_correct /\ confidence >= 3 THEN 9
    ELSE IF ~is_correct /\ confidence <= 3 THEN 6
    ELSE 3

\* As WeightedSum, with the coefficients of the two accuracies exchanged.
WeightedSumSwapped(n, c, T, C, W, Wc) ==
    LET num == IF W > 0 THEN (300 * c + 10 * T + 10 * C) * W + 500 * Wc * n
                        ELSE 300 * c + 10 * T + 10 * C
        den == IF W > 0 THEN n * W ELSE n
    IN  IF num > 1000 * den THEN <<1000, 1>>
        ELSE IF num < 0 THEN <<0, 1>>
        ELSE <<num, den>>

\* As WeightedSum, with the four coefficients in the reverse order: 0.1 and
\* 0.1 for the accuracies, 0.3 for the time and 0.5 for the calibration.
WeightedSumReversed(n, c, T, C, W, Wc) ==
    LET num == IF W > 0 THEN (100 * c + 30 * T + 50 * C) * W + 100 * Wc * n
                        ELSE 100 * c + 30 * T + 50 * C
        den == IF W > 0 THEN n * W ELSE n
    IN  IF num > 1000 * den THEN <<1000, 1>>
        ELSE IF num < 0 THEN <<0, 1>>
        ELSE <<num, den>>

\* final_score in hundredths before round(): the weighted sum times 10, clamped
\* by max(0, min(10, .)), as the fraction <<numerator, denominator>>.
\*   n answers, c of them correct; T and C the sums of the time and the
\*   confidence scores in tenths; W and Wc the weights in tenths of all and of
\*   the correct answers that have a question.
WeightedSum(n, c, T, C, W, Wc) ==
    LET num == IF W > 0 THEN (500 * c + 10 * T + 10 * C) * W + 300 * Wc * n
                        ELSE 500 * c + 10 * T + 10 * C
        den == IF W > 0 THEN n * W ELSE n
    IN  IF num > 1000 * den THEN <<1000, 1>>
        ELSE IF num < 0 THEN <<0, 1>>
        ELSE <<num, den>>

\* The breakdown dict {}: no key is present (an absent value is None here).
\* The percentages of a breakdown are in tenths of a percent.
EmptyBreakdown ==
    [keys |-> {}, questions_answered |-> None, correct_answers |-> None,
     basic_accuracy |-> None, weighted_accuracy |-> None,
     time_efficiency |-> None, confidence_calibration |-> None]

BreakdownKeys == {"questions_answered", "correct_answers", "basic_accuracy",
                  "weighted_accuracy", "time_efficiency", "confidence_calibration"}

NoAnswers == [raises |-> FALSE, final_score |-> Rat(0, 1),
              breakdown |-> EmptyBreakdown, analysis |-> "No answers submitted"]

TypeErrorRaised == [raises |-> TRUE, final_score |-> NoScore,
                    breakdown |-> EmptyBreakdown, analysis |-> ""]

calculate_detailed_score(answers_data, questions_data) ==
    LET total_answered == Len(answers_data)
        nq == Len(questions_data)
        idx == 1..total_answered
        difficulty(i) == IF i <= nq THEN questions_data[i].difficulty_level ELSE 3
        correct_answers == Cardinality({i \in idx : answers_data[i].is_correct})
        time_scores == [i \in idx |-> TimeScore(answers_data[i].time_taken, difficulty(i))]
        confidence_accuracy ==
            [i \in idx |-> ConfidenceAccuracy(answers_data[i].is_correct,
                                              answers_data[i].confidence_level)]
        weights == [i \in idx |-> IF i <= nq THEN DifficultyWeight(difficulty(i)) ELSE 0]
        correct_weights == [i \in idx |-> IF answers_data[i].is_correct THEN weights[i] ELSE 0]
        T == SumTo(time_scores, total_answered)
        C == SumTo(confidence_accuracy, total_answered)
        W == SumTo(weights, total_answered)
        Wc == SumTo(correct_weights, total_answered)
        final == WeightedSum(total_answered, correct_answers, T, C, W, Wc)
    IN  IF total_answered = 0 THEN NoAnswers
        \* None <= expected_time and None >= 4 / None <= 2 are TypeErrors
        ELSE IF \E i \in idx : answers_data[i].time_taken = None
                               \/ answers_data[i].confidence_level = None
             THEN TypeErrorRaised
        ELSE [raises |-> FALSE,
              final_score |-> Rat(Round(final[1], final[2]), 100),
              breakdown |->
                  [keys |-> BreakdownKeys,
                   questions_answered |-> total_answered,
                   correct_answers |-> correct_answers,
                   basic_accuracy |-> Round(1000 * correct_answers, total_answered),
                   weighted_accuracy |-> IF W > 0 THEN Round(1000 * Wc, W) ELSE 0,
                   time_efficiency |-> Round(100 * T, total_answered),
                   confidence_calibration |-> Round(100 * C, total_answered)],
              analysis |-> ""]

-----------------------------------------------------------------------------
(* The exam session: exam.py start_exam_session, submit_answer,             *)
(* complete_exam_session; scoring.py calculate_comprehensive_score,         *)
(* get_score_report                                                         *)

MaxQuestions == 2

Q(id, type, difficulty_level) ==
    [id |-> id, type |-> type, difficulty_level |-> difficulty_level]

\* The questions of the materials, sorted by id as start_exam_session sorts them.
QuestionBanks == {
    <<Q(1, "multiple_choice", 1), Q(2, "short_answer", 3), Q(3, "true_false", 5),
      Q(4, "essay", 2)>>,
    <<Q(5, "essay", 5), Q(6, "true_false", 4), Q(7, "short_answer", 1),
      Q(8, "multiple_choice", 3)>> }

\* (confidence_level, time_taken) of a StudentAnswer: each one optional.
AnswerInputs == {
    [confidence_level |-> None, time_taken |-> 40],
    [confidence_level |-> 3, time_taken |-> None],
    [confidence_level |-> 2, time_taken |-> 0],
    [confidence_level |-> 4, time_taken |-> 40],
    [confidence_level |-> 3, time_taken |-> 300] }

\* Oracle responses offered to the evaluation inside submit_answer, one per model.
SessionRuns == {
    <<Raise, Text(<<"bad">>, Num(80)), Text(<<"num">>, Num(80))>>,
    <<Text(PlainObject, Num(30)), Raise, Raise>>,
    <<Raise, Text(FencedObject, Num(80)), Raise>> }

NoSession ==
    [status |-> "none", current_question |-> 0, questions_data |-> << >>,
     answers_data |-> << >>, end_time |-> FALSE, final_score |-> NoScore,
     score_breakdown |-> EmptyBreakdown]

NoReply == [op |-> "", code |-> 0, final_score |-> NoScore]

Reply(op, code, final_score) == [op |-> op, code |-> code, final_score |-> final_score]

\* POST /start: the row is created with the first num_questions questions of
\* the material; with none selected, questions[0] raises after the commit.
start_exam_session(bank, num_questions) ==
    /\ pc = "idle"
    /\ session = NoSession
    /\ LET actual_num_questions == IF num_questions < Len(bank) THEN num_questions
                                                                ELSE Len(bank)
           questions == SubSeq(bank, 1, actual_num_questions)
       IN  /\ session' = [NoSession EXCEPT !.status = "started",
                                           !.questions_data = questions]
           /\ reply' = Reply("start", IF questions = << >> THEN 500 ELSE 200, NoScore)
    /\ UNCHANGED <<client, evalVars, matchVars, scoreVars, concVars>>

\* What the commit writes to the answers_data column (models.py: Column(JSON),
\* no mutation tracking).  "session.answers_data or []" is the loaded list
\* itself unless that list is empty; append changes it in place, and the
\* assignment then sets the attribute to the object it already holds, so the
\* unit of work compares the list with itself, finds no change and leaves the
\* column out of the UPDATE.  Only an answer appended to the new list made for
\* an empty column is written.
StoredAnswers(loaded, entry) ==
    IF loaded = << >> THEN <<entry>> ELSE loaded

\* POST /session/{id}/answer
submit_answer(question_id, input, simple, rs) ==
    /\ pc = "idle"
    /\ IF session.status = "none"
       THEN /\ reply' = Reply("answer", 404, NoScore)
            /\ UNCHANGED session
       ELSE IF session.status \notin {"started", "in_progress"}
       THEN /\ reply' = Reply("answer", 400, NoScore)
            /\ UNCHANGED session
       ELSE IF session.current_question >= Len(session.questions_data)
       THEN /\ reply' = Reply("answer", 400, NoScore)
            /\ UNCHANGED session
       ELSE LET current_question == session.questions_data[session.current_question + 1]
                done == session.current_question + 1 >= Len(session.questions_data)
            IN  \E evaluation \in {Evaluate(client, current_question.type, simple, rs)} :
                  IF evaluation.raises
                  THEN /\ reply' = Reply("answer", 500, NoScore)
                       /\ UNCHANGED session
                  ELSE /\ session' =
                           [session EXCEPT
                               !.answers_data =
                                   StoredAnswers(@,
                                       [question_id |-> current_question.id,
                                        confidence_level |-> input.confidence_level,
                                        time_taken |-> input.time_taken,
                                        is_correct |-> evaluation.result.is_correct,
                                        score |-> evaluation.result.score,
                                        feedback |-> evaluation.result.feedback]),
                               !.current_question = @ + 1,
                               !.status = IF done THEN "completed" ELSE "in_progress",
                               !.end_time = IF done THEN TRUE ELSE @]
                       /\ reply' = Reply("answer", 200, NoScore)
    /\ UNCHANGED <<client, evalVars, matchVars, scoreVars, concVars>>

\* As complete_exam_session, without the test for a completed session.
complete_exam_session_unchecked ==
    /\ pc = "idle"
    /\ IF session.status = "none"
       THEN /\ reply' = Reply("complete", 404, NoScore)
            /\ UNCHANGED session
       ELSE \E basic_score \in
                {IF Len(session.answers_data) > 0
                 THEN Rat(10 * Cardinality({i \in 1..Len(session.answers_data) :
                                               session.answers_data[i].is_correct}),
                          Len(session.answers_data))
                 ELSE Rat(0, 1)} :
                /\ session' = [session EXCEPT !.status = "completed",
                                              !.end_time = TRUE,
                                              !.final_score = basic_score]
                /\ reply' = Reply("complete", 200, basic_score)
    /\ UNCHANGED <<client, evalVars, matchVars, scoreVars, concVars>>

\* POST /session/{id}/complete: the stored score is the plain accuracy times 10.
complete_exam_session ==
    /\ pc = "idle"
    /\ IF session.status = "none"
       THEN /\ reply' = Reply("complete", 404, NoScore)
            /\ UNCHANGED session
       ELSE IF session.status = "completed"
       THEN /\ reply' = Reply("complete", 400, NoScore)
            /\ UNCHANGED session
       ELSE LET answers == session.answers_data
                total_answered == Len(answers)
                correct_answers ==
                    Cardinality({i \in 1..total_answered : answers[i].is_correct})
                basic_score == IF total_answered > 0
                               THEN Rat(correct_answers * 10, total_answered)
                               ELSE Rat(0, 1)
            IN  /\ session' = [session EXCEPT !.status = "completed",
                                              !.end_time = TRUE,
                                              !.final_score = basic_score]
                /\ reply' = Reply("complete", 200, basic_score)
    /\ UNCHANGED <<client, evalVars, matchVars, scoreVars, concVars>>

\* POST /session/{id}/calculate
calculate_comprehensive_score ==
    /\ pc = "idle"
    /\ IF session.status = "none"
       THEN /\ reply' = Reply("calculate", 404, NoScore)
            /\ UNCHANGED session
       ELSE IF session.status # "completed"
       THEN /\ reply' = Reply("calculate", 400, NoScore)
            /\ UNCHANGED session
       ELSE LET score_data ==
                    calculate_detailed_score(session.answers_data, session.questions_data)
            IN  IF score_data.raises
                THEN /\ reply' = Reply("calculate", 500, NoScore)
                     /\ UNCHANGED session
                ELSE /\ session' = [session EXCEPT
                                        !.final_score = score_data.final_score,
                                        !.score_breakdown = score_data.breakdown]
                     /\ reply' = Reply("calculate", 200, score_data.final_score)
    /\ UNCHANGED <<client, evalVars, matchVars, scoreVars, concVars>>

\* GET /session/{id}/report: the score is computed only when none is stored.
get_score_report ==
    /\ pc = "idle"
    /\ IF session.status = "none"
       THEN /\ reply' = Reply("report", 404, NoScore)
            /\ UNCHANGED session
       ELSE IF session.final_score = NoScore
       THEN LET score_data ==
                    calculate_detailed_score(session.answers_data, session.questions_data)
            IN  IF score_data.raises
                THEN /\ reply' = Reply("report", 500, NoScore)
                     /\ UNCHANGED session
                ELSE /\ session' = [session EXCEPT
                                        !.final_score = score_data.final_score,
                                        !.score_breakdown = score_data.breakdown]
                     /\ reply' = Reply("report", 200, score_data.final_score)
       ELSE /\ reply' = Reply("report", 200, session.final_score)
            /\ UNCHANGED session
    /\ UNCHANGED <<client, evalVars, matchVars, scoreVars, concVars>>

-----------------------------------------------------------------------------
(* calculate_detailed_score called on a session *)

MaxAnswers == 2

MaxCalls == 2

NoScoreData == [raises |-> FALSE, final_score |-> NoScore,
                breakdown |-> EmptyBreakdown, analysis |-> ""]

\* One answered question: what submit_answer stored for it (evaluated without
\* a client) and the difficulty of its question.
Case(is_correct, confidence_level, time_taken, difficulty_level) ==
    [is_correct |-> is_correct, confidence_level |-> confidence_level,
     time_taken |-> time_taken, difficulty_level |-> difficulty_level]

\* Every difficulty with the times around its thresholds, every pair of
\* verdict and confidence, an answer without confidence or without time, the
\* best answer of every difficulty (correct, sure, on time), the worst ones
\* (incorrect, sure, very slow or without a measured time) and both verdicts
\* of an unsure answer to the easiest and to the hardest question.
ScoreCases ==
    {Case(TRUE, 3, t, d) : t \in {0, 1}, d \in Difficulties}
    \cup {Case(TRUE, 3, ExpectedTime(d) * k + e, d) :
              k \in {1, 2}, e \in {0, 1}, d \in Difficulties}
    \cup {Case(ok, c, 40, 3) : ok \in BOOLEAN, c \in 1..5}
    \cup {Case(FALSE, None, 40, 3), Case(TRUE, 3, None, 3)}
    \cup {Case(TRUE, 4, ExpectedTime(d), d) : d \in Difficulties}
    \cup {Case(FALSE, 5, 61, 1), Case(FALSE, 4, 0, 3)}
    \cup {Case(ok, 1, 40, d) : ok \in BOOLEAN, d \in {1, 5}}

\* The session after submit_answer stored the cases; more: a question is left.
ScoreSession(cases, more) ==
    LET n == Len(cases)
        answered == [i \in 1..n |-> Q(i, "short_answer", cases[i].difficulty_level)]
        evaluation(i) == FallbackResponse("short_answer", cases[i].is_correct)
    IN  [status |-> IF n = 0 THEN "started"
                    ELSE IF more THEN "in_progress" ELSE "completed",
         current_question |-> n,
         questions_data |-> IF more THEN Append(answered, Q(n + 1, "essay", 3))
                                    ELSE answered,
         answers_data |-> [i \in 1..n |->
                              [question_id |-> i,
                               confidence_level |-> cases[i].confidence_level,
                               time_taken |-> cases[i].time_taken,
                               is_correct |-> cases[i].is_correct,
                               score |-> evaluation(i).score,
                               feedback |-> evaluation(i).feedback]],
         end_time |-> n > 0 /\ ~more,
         final_score |-> NoScore,
         score_breakdown |-> EmptyBreakdown]

\* As ScoreCall, keeping the computed score on the session.
ScoreCallStoring ==
    /\ pc = "idle"
    /\ session.status # "none"
    /\ score_calls < MaxCalls
    /\ \E data \in {calculate_detailed_score(session.answers_data,
                                             session.questions_data)} :
          /\ detailed_score' = data
          /\ session' = [session EXCEPT !.final_score = data.final_score,
                                        !.score_breakdown = data.breakdown]
    /\ score_calls' = score_calls + 1
    /\ UNCHANGED <<client, evalVars, matchVars, reply, concVars>>

\* calculate_detailed_score(session, db): reads session.answers_data and
\* session.questions_data and returns a dict; nothing is assigned to session.
ScoreCall ==
    /\ pc = "idle"
    /\ session.status # "none"
    /\ score_calls < MaxCalls
    /\ detailed_score' = calculate_detailed_score(session.answers_data,
                                                  session.questions_data)
    /\ score_calls' = score_calls + 1
    /\ UNCHANGED <<client, evalVars, matchVars, session, reply, concVars>>

-----------------------------------------------------------------------------
(* Specifications *)

Init ==
    /\ client \in BOOLEAN
    /\ pc = "idle"
    /\ question_type = "short_answer"
    /\ simple_result = FALSE
    /\ fallback_response = NoResult
    /\ attempt = 0
    /\ requests = << >>
    /\ responses = << >>
    /\ result = NoResult
    /\ raised = FALSE
    /\ session = NoSession
    /\ reply = NoReply
    /\ student_answer = << >>
    /\ correct_answer = << >>
    /\ question_options = << >>
    /\ verdict = NoVerdict
    /\ detailed_score = NoScoreData
    /\ score_calls = 0
    /\ calls = [c \in Submissions |-> NotCalled]
    /\ served = [c \in Submissions |-> << >>]

\* The session handlers; each runs to completion before the next is served.
Next ==
    \/ \E bank \in QuestionBanks, n \in 0..MaxQuestions : start_exam_session(bank, n)
    \/ \E qid \in {1, 6}, input \in AnswerInputs, simple \in BOOLEAN,
          rs \in SessionRuns : submit_answer(qid, input, simple, rs)
    \/ complete_exam_session
    \/ calculate_comprehensive_score
    \/ get_score_report

Spec == Init /\ [][Next]_vars

\* One evaluation after another, each step of a call on its own.
EvalNext ==
    \/ \E qtype \in QuestionTypes, simple \in BOOLEAN : EvalCall(qtype, simple)
    \/ TierRequest
    \/ \E response \in Responses : TierResponse(response)
    \/ EvalDone

EvalSpec == Init /\ [][EvalNext]_vars

\* The matcher as a function: any of the inputs, then the call.
MatchInit ==
    /\ client = FALSE
    /\ pc = "idle"
    /\ \E input \in MatchInputs :
          /\ question_type = input.question_type
          /\ student_answer = input.student_answer
          /\ correct_answer = input.correct_answer
          /\ question_options = input.question_options
    /\ simple_result = FALSE
    /\ fallback_response = NoResult
    /\ attempt = 0
    /\ requests = << >>
    /\ responses = << >>
    /\ result = NoResult
    /\ raised = FALSE
    /\ session = NoSession
    /\ reply = NoReply
    /\ verdict = NoVerdict
    /\ detailed_score = NoScoreData
    /\ score_calls = 0
    /\ calls = [c \in Submissions |-> NotCalled]
    /\ served = [c \in Submissions |-> << >>]

MatchNext == MatchCall

MatchSpec == MatchInit /\ [][MatchNext]_vars

\* The aggregation as a function: any of the sessions, then the calls.
ScoreInit ==
    /\ client = FALSE
    /\ pc = "idle"
    /\ question_type = "short_answer"
    /\ simple_result = FALSE
    /\ fallback_response = NoResult
    /\ attempt = 0
    /\ requests = << >>
    /\ responses = << >>
    /\ result = NoResult
    /\ raised = FALSE
    /\ \E n \in 0..MaxAnswers :
          \E cases \in [1..n -> ScoreCases], more \in BOOLEAN :
              /\ n = 0 => more
              /\ session = ScoreSession(cases, more)
    /\ reply = NoReply
    /\ student_answer = << >>
    /\ correct_answer = << >>
    /\ question_options = << >>
    /\ verdict = NoVerdict
    /\ detailed_score = NoScoreData
    /\ score_calls = 0
    /\ calls = [c \in Submissions |-> NotCalled]
    /\ served = [c \in Submissions |-> << >>]

ScoreNext == ScoreCall

ScoreSpec == ScoreInit /\ [][ScoreNext]_vars

\* The evaluations of the submissions, their steps in any order.
ConcNext ==
    \/ \E c \in Submissions, qtype \in QuestionTypes, simple \in BOOLEAN :
          SubmissionCall(c, qtype, simple)
    \/ \E c \in Submissions : SubmissionRequest(c)
    \/ \E c \in Submissions, response \in SubmissionResponses :
          SubmissionResponse(c, response)

ConcSpec == Init /\ [][ConcNext]_vars

-----------------------------------------------------------------------------
(* Properties of _evaluate_answer_with_openai (EvalSpec) *)

\* The attempt made with this response ended the loop with an oracle result.
Accepted(qtype, response) == TierAttempt(qtype, response).do = "return"

LastResponse == responses[Len(responses)]

\* C1: whatever the question type and whatever each tier does (the call
\* raises, the text holds no parsable JSON, the JSON is not an object, the
\* score is not a number, the object is valid), the call returns a result
\* with a score, a verdict and a feedback, and propagates no exception.
C1_NeverRaises ==
    pc = "returned" =>
        /\ ~raised
        /\ result.score \in 0..100
        /\ result.is_correct \in BOOLEAN
        /\ result.feedback # ""

C1_Witness ==
    /\ pc = "returned"
    /\ Len(responses) = 3
    /\ responses[1] = Raise
    /\ responses[2] = Text(<<"num">>, Num(80))
    /\ responses[3] = Text(PlainObject, NotNumber)
    /\ result = fallback_response

TierOrderOk ==
    /\ Len(requests) <= 3
    /\ requests = SubSeq(<<"gpt-4o-mini", "gpt-3.5-turbo", "gpt-4o">>, 1, Len(requests))
    /\ Len(responses) <= Len(requests)
    /\ Len(requests) <= Len(responses) + 1
    /\ Len(responses) = 3 => pc \in {"returned", "idle"}

C4_TiersInOrder ==
    [][/\ TierOrderOk'
       /\ (requests' # requests /\ requests' # << >>) =>
              /\ Len(requests') = Len(requests) + 1
              /\ Len(responses) = Len(requests)
              /\ \A i \in 1..Len(responses) : ~Accepted(question_type, responses[i])]_vars

C4_Witness ==
    /\ pc = "waiting"
    /\ requests = <<"gpt-4o-mini", "gpt-3.5-turbo", "gpt-4o">>
    /\ Len(responses) = 2

\* C5: without a client the call returns fallback_response and issues no
\* request; the loop over the models is never entered.
C5_NoClientNoRequest ==
    ~client =>
        /\ pc \notin {"loop", "waiting"}
        /\ pc = "returned" =>
              /\ requests = << >>
              /\ responses = << >>
              /\ result = fallback_response
              /\ result.is_correct = simple_result

C5_Witness ==
    /\ ~client
    /\ pc = "returned"
    /\ question_type = "multiple_choice"
    /\ result = [score |-> 100, feedback |-> "Correct answer", is_correct |-> TRUE]

\* The three candidates of a response text, in the order brace span, whole
\* response, fenced block (<< >> when the text has none).
BraceSpan(t) ==
    LET first == Find(t, "{", 1)
        last == RFind(t, "}")
    IN  IF first > 0 /\ last > 0 THEN SubSeq(t, first, last) ELSE << >>

FencedBlock(t) ==
    LET open == Find(t, "FENCEJSON", 1)
        close == IF open > 0 THEN Find(t, "FENCE", open + 1) ELSE 0
    IN  IF close > open + 1 THEN Strip(SubSeq(t, open + 1, close - 1)) ELSE << >>

Parses(cand) == cand # << >> /\ JsonLoads(cand).kind = "object"

\* C6: the candidates are tried in the order brace span, whole response,
\* fenced block and the first one that parses gives the result; an attempt
\* fails only if none parses.  Stated for a score member that is a number
\* and members float() and the feedback concatenation accept.
C6_FirstParsingCandidate ==
    \A i \in 1..Len(responses) :
        LET t == Strip(responses[i].text)
            cands == <<BraceSpan(t), t, FencedBlock(t)>>
            hits == {k \in 1..3 : Parses(cands[k])}
            first == CHOOSE k \in hits : \A j \in hits : k <= j
            usable == /\ "fbnum" \notin JsonLoads(cands[first]).members
                      /\ responses[i].score.k = "num"
        IN  (~responses[i].raises /\ hits # {} /\ usable) =>
                /\ i = Len(responses)
                /\ pc \in {"returned", "idle"}
                /\ result.feedback = "oracle feedback"

-----------------------------------------------------------------------------
(* Properties of the score aggregation (C8 under ScoreSpec, C9 and C10 under Spec) *)

AllPresent(answers) ==
    \A i \in 1..Len(answers) : /\ answers[i].time_taken # None
                                /\ answers[i].confidence_level # None

\* The difficulty weights {1: 1.0, 2: 1.2, 3: 1.5, 4: 2.0, 5: 2.5}, in tenths.
StatedWeight(d) == <<10, 12, 15, 20, 25>>[d]

CurrentScore == calculate_detailed_score(session.answers_data, session.questions_data)

\* C8: for a non-empty answer sequence with every time and confidence
\* present, final_score is 10 * (0.5 * basic_accuracy + 0.3 * weighted_accuracy
\* + 0.1 * mean time efficiency + 0.1 * mean confidence calibration) clamped
\* to [0, 10] and rounded to two decimals (it lies within 0.005 of the exact
\* value), basic_accuracy being correct / answered and weighted_accuracy the
\* weight of the correct answers over the weight of all answers; so
\* final_score is within [0, 10].
C8_CompositeFormula ==
    LET a == session.answers_data
        q == session.questions_data
        n == Len(a)
        c == Cardinality({i \in 1..n : a[i].is_correct})
        W == SumTo([i \in 1..n |-> StatedWeight(q[i].difficulty_level)], n)
        Wc == SumTo([i \in 1..n |-> IF a[i].is_correct
                                     THEN StatedWeight(q[i].difficulty_level) ELSE 0], n)
        T == SumTo([i \in 1..n |-> TimeScore(a[i].time_taken, q[i].difficulty_level)], n)
        C == SumTo([i \in 1..n |-> ConfidenceAccuracy(a[i].is_correct,
                                                      a[i].confidence_level)], n)
        \* 100 * the stated value, as num / den
        den == n * W
        raw == (500 * c + 10 * T + 10 * C) * W + 300 * Wc * n
        num == IF raw > 1000 * den THEN 1000 * den ELSE IF raw < 0 THEN 0 ELSE raw
        r == detailed_score
        hundredths == (r.final_score[1] * 100) \div r.final_score[2]
    IN  (score_calls > 0 /\ n > 0 /\ AllPresent(a)) =>
            /\ ~r.raises
            /\ r.final_score = Rat(hundredths, 100)
            /\ hundredths \in 0..1000
            /\ 2 * Abs(hundredths * den - num) <= den

C8_Witness ==
    /\ score_calls > 0
    /\ Len(session.answers_data) = 2
    /\ AllPresent(session.answers_data)
    /\ session.answers_data[1].is_correct
    /\ ~session.answers_data[2].is_correct
    /\ session.questions_data[1].difficulty_level = 1
    /\ session.questions_data[2].difficulty_level = 3
    /\ session.answers_data[1].time_taken = 30
    /\ session.answers_data[1].confidence_level = 4
    /\ session.answers_data[2].time_taken = 40
    /\ session.answers_data[2].confidence_level = 3
    \* 10 * (0.5 * 1/2 + 0.3 * 1.0/2.5 + 0.1 * (1.0 + 1.0)/2 + 0.1 * (1.0 + 0.6)/2) = 5.5
    /\ detailed_score.final_score = <<11, 2>>

\* C9: the final_score a report returns is calculate_detailed_score of the
\* session's current answers and questions, whatever operations came before.
C9_ReportIsCurrent ==
    (/\ reply.op = "report"
     /\ reply.code = 200
     /\ AllPresent(session.answers_data)) =>
        reply.final_score = CurrentScore.final_score

\* answers_data with the defaults in place of the missing values: a time of 0
\* is the one scored 0.5, and the default confidence is 3.
Defaulted(answers) ==
    [i \in 1..Len(answers) |->
        [answers[i] EXCEPT
            !.time_taken = IF @ = None THEN 0 ELSE @,
            !.confidence_level = IF @ = None THEN 3 ELSE @]]

\* C10: answers stored without time_taken or confidence_level are aggregated
\* with time efficiency 0.5 and confidence 3, and the aggregation returns a
\* breakdown instead of raising.
C10_MissingValuesDefaulted ==
    (Len(session.answers_data) > 0 /\ ~AllPresent(session.answers_data)) =>
        /\ ~CurrentScore.raises
        /\ CurrentScore.final_score =
              calculate_detailed_score(Defaulted(session.answers_data),
                                       session.questions_data).final_score

-----------------------------------------------------------------------------
(* Properties of calculate_detailed_score as a function (ScoreSpec) *)

\* C11: called on a session without answers, calculate_detailed_score does
\* not raise and returns final_score 0.0, the marker "No answers submitted"
\* and a breakdown whose answered and correct counts are both 0.
C11_EmptyAggregation ==
    (score_calls > 0 /\ session.answers_data = << >>) =>
        /\ ~detailed_score.raises
        /\ detailed_score.final_score = Rat(0, 1)
        /\ detailed_score.analysis = "No answers submitted"
        /\ detailed_score.breakdown.questions_answered = 0
        /\ detailed_score.breakdown.correct_answers = 0

-----------------------------------------------------------------------------
(* Properties of the deterministic matcher (MatchSpec) *)

\* The words of an answer, case ignored.
AnswerWords(s) == Split(Lower(s))

AffirmativeTokens == {<<"t", "r", "u", "e">>, <<"y", "e", "s">>,
                      <<"c", "o", "r", "r", "e", "c", "t">>, <<"t">>}

NegativeTokens == {<<"f", "a", "l", "s", "e">>, <<"n", "o">>,
                   <<"i", "n", "c", "o", "r", "r", "e", "c", "t">>, <<"f">>}

OnlyAffirmative(s) == AnswerWords(s) # {} /\ AnswerWords(s) \subseteq AffirmativeTokens

OnlyNegative(s) == AnswerWords(s) # {} /\ AnswerWords(s) \subseteq NegativeTokens

\* C13: whatever the question type and the student answer, an empty correct
\* answer (a missing one reaches the matcher as the empty string) makes the
\* matcher return false.
C13_EmptyCorrectNoMatch ==
    (verdict.called /\ StripStr(correct_answer) = << >>) => ~verdict.result

\* C14: for a true_false question whose student and correct answers each
\* consist only of affirmative tokens or only of negative tokens, the matcher
\* returns true exactly when both are affirmative or both are negative.
C14_AlignedTrueFalse ==
    (/\ verdict.called
     /\ question_type = "true_false"
     /\ OnlyAffirmative(student_answer) \/ OnlyNegative(student_answer)
     /\ OnlyAffirmative(correct_answer) \/ OnlyNegative(correct_answer)) =>
        (verdict.result <=>
            (OnlyAffirmative(student_answer) <=> OnlyAffirmative(correct_answer)))

\* C15: for a true_false question, a student answer with no word of either
\* token set, or with a word of each, is a mismatch: the matcher returns
\* false whatever the correct answer.
C15_AmbiguousStudentMismatch ==
    LET affirms == AnswerWords(student_answer) \cap AffirmativeTokens # {}
        denies == AnswerWords(student_answer) \cap NegativeTokens # {}
    IN  (/\ verdict.called
         /\ question_type = "true_false"
         /\ affirms <=> denies) => ~verdict.result

\* The option letters (a-d, 1-4) a correct answer carries: each stands there
\* as a word of its own, case ignored.
CarriedLetters(s) ==
    LET t == Lower(s)
    IN  {t[i] : i \in {i \in 1..Len(t) :
                  /\ t[i] \in {"a", "b", "c", "d", "1", "2", "3", "4"}
                  /\ (i = 1 \/ ~IsWordChar(t[i - 1]))
                  /\ (i = Len(t) \/ ~IsWordChar(t[i + 1]))}}

\* C16: for a multiple_choice question whose correct answer carries an
\* option letter, the student answer that is this letter, in either case,
\* makes the matcher return true.
C16_LetterAnswerMatches ==
    (/\ verdict.called
     /\ question_type = "multiple_choice"
     /\ Len(student_answer) = 1
     /\ Lower(student_answer)[1] \in CarriedLetters(correct_answer)) => verdict.result

C16_Witness ==
    /\ verdict.called
    /\ question_type = "multiple_choice"
    /\ student_answer = <<"b">>
    /\ correct_answer = BParis
    /\ question_options = ParisOptions
    /\ verdict.result
    /\ verdict.stage = 1

\* C17: with correct answer "B) Paris" and the options "A) London",
\* "B) Paris", "C) Rome", "D) Berlin", the student answer "paris" is matched,
\* and by strategy 2 (the text of the option), strategy 1 having found no
\* common letter.
C17_ParisViaOptionText ==
    (/\ verdict.called
     /\ question_type = "multiple_choice"
     /\ student_answer = Paris
     /\ correct_answer = BParis
     /\ question_options = ParisOptions) =>
        /\ verdict.result
        /\ verdict.stage = 2

-----------------------------------------------------------------------------
(* Properties of the per-answer scores (ScoreSpec) *)

\* The time-efficiency score of one answer as the rule states it, in tenths.
StatedTimeScore(time_taken, d) ==
    LET expected == <<30, 45, 60, 90, 120>>[d]
    IN  IF time_taken = 0 THEN 5
        ELSE IF time_taken <= expected THEN 10
        ELSE IF time_taken <= 2 * expected THEN 8
        ELSE 6

\* C19: an answer with time_taken > 0 on a question of difficulty d scores
\* 1.0 up to the expected time {1: 30, 2: 45, 3: 60, 4: 90, 5: 120}[d], 0.8 up
\* to twice the expected time and 0.6 beyond, and a time_taken of 0 scores
\* 0.5: the time_efficiency the call returns is the mean of these scores as
\* a percentage (of one answer: the score itself).
C19_TimeEfficiencyTable ==
    LET a == session.answers_data
        q == session.questions_data
        n == Len(a)
        stated == [i \in 1..n |-> StatedTimeScore(a[i].time_taken, q[i].difficulty_level)]
    IN  (score_calls > 0 /\ n > 0 /\ AllPresent(a)) =>
            /\ ~detailed_score.raises
            /\ detailed_score.breakdown.time_efficiency = Round(100 * SumTo(stated, n), n)
            /\ n = 1 => detailed_score.breakdown.time_efficiency = 100 * stated[1]

C19_Witness ==
    /\ score_calls > 0
    /\ Len(session.answers_data) = 1
    /\ session.questions_data[1].difficulty_level = 3
    /\ session.answers_data[1].time_taken = 120
    /\ session.answers_data[1].confidence_level = 3
    /\ detailed_score.breakdown.time_efficiency = 800

\* The calibration credit of one answer as the ordered rule states it, in tenths.
StatedCredit(is_correct, c) ==
    IF is_correct /\ c >= 4 THEN 10
    ELSE IF is_correct /\ c >= 3 THEN 9
    ELSE IF ~is_correct /\ c <= 2 THEN 8
    ELSE IF ~is_correct /\ c <= 3 THEN 6
    ELSE 3

\* C20: for the 10 combinations of verdict and confidence c in 1..5 the
\* calibration credit is 1.0 (correct, c >= 4), 0.9 (correct, c = 3), 0.8
\* (incorrect, c <= 2), 0.6 (incorrect, c = 3) and 0.3 otherwise, the value of
\* the ordered rule: the confidence_calibration the call returns is the mean
\* of these credits as a percentage (of one answer: the credit itself).
C20_CalibrationTable ==
    LET a == session.answers_data
        n == Len(a)
        table(ok, c) == IF ok THEN <<3, 3, 9, 10, 10>>[c] ELSE <<8, 8, 6, 3, 3>>[c]
        stated == [i \in 1..n |-> table(a[i].is_correct, a[i].confidence_level)]
    IN  (score_calls > 0 /\ n > 0 /\ AllPresent(a)) =>
            /\ ~detailed_score.raises
            /\ \A i \in 1..n :
                  stated[i] = StatedCredit(a[i].is_correct, a[i].confidence_level)
            /\ detailed_score.breakdown.confidence_calibration =
                  Round(100 * SumTo(stated, n), n)
            /\ n = 1 => detailed_score.breakdown.confidence_calibration = 100 * stated[1]

C20_Witness ==
    /\ score_calls > 0
    /\ Len(session.answers_data) = 1
    /\ ~session.answers_data[1].is_correct
    /\ session.answers_data[1].confidence_level = 3
    /\ detailed_score.breakdown.confidence_calibration = 600

-----------------------------------------------------------------------------
(* C21: the boundaries of the composite score *)

\* C21: when every answer is correct, on time (0 < time_taken <= the expected
\* time of its difficulty) and given with confidence >= 4, final_score is
\* 10.0; when every answer is incorrect, to a question of difficulty 1, very
\* slow (time_taken > twice the expected time) and given with confidence >= 4,
\* final_score is 0.9; and every session with an answer yields a final_score
\* of at least 0.8.
C21_CompositeBoundaries ==
    LET a == session.answers_data
        q == session.questions_data
        n == Len(a)
        expected(i) == <<30, 45, 60, 90, 120>>[q[i].difficulty_level]
        best == \A i \in 1..n :
                    /\ a[i].is_correct
                    /\ a[i].time_taken > 0 /\ a[i].time_taken <= expected(i)
                    /\ a[i].confidence_level >= 4
        worst == \A i \in 1..n :
                    /\ ~a[i].is_correct
                    /\ q[i].difficulty_level = 1
                    /\ a[i].time_taken > 2 * expected(i)
                    /\ a[i].confidence_level >= 4
        final_score == detailed_score.final_score
    IN  (score_calls > 0 /\ n > 0) =>
            /\ ~detailed_score.raises
            /\ final_score # NoScore
            /\ 10 * final_score[1] >= 8 * final_score[2]
            /\ best => final_score = <<10, 1>>
            /\ worst => final_score = <<9, 10>>

-----------------------------------------------------------------------------
(* C22: evaluations in progress together *)

\* What the oracle answered to the requests of submission c.
OwnResponses(c) == [k \in 1..Len(served[c]) |-> served[c][k].response]

\* rs with the answers of the models that were not asked set to filler.
Padded(rs, filler) ==
    [k \in 1..Len(models_to_try) |-> IF k <= Len(rs) THEN rs[k] ELSE filler]

\* The result of a call that returned is what the call computes from its own
\* arguments and the answers to its own requests, whatever else was answered.
ResultIsOwn(c) ==
    /\ calls[c].responses = OwnResponses(c)
    /\ calls[c].requests =
           [k \in 1..Len(calls[c].requests) |-> models_to_try[k]]
    /\ calls[c].pc = "returned" =>
           \A filler \in SubmissionResponses :
               \E e \in {Evaluate(client, calls[c].question_type, calls[c].simple_result,
                                  Padded(OwnResponses(c), filler))} :
                   /\ e.raises = calls[c].raised
                   /\ ~e.raises => e.result = calls[c].result

\* A step of one call leaves the client and the other calls as they were.
StepIsOwn ==
    \A c \in Submissions :
        calls'[c] # calls[c] =>
            /\ client' = client
            /\ \A d \in Submissions \ {c} : calls'[d] = calls[d] /\ served'[d] = served[d]

\* C22: with evaluate calls in progress together and their steps in any
\* order, the result of each call is a function only of its own arguments and
\* of the oracle's responses to its own requests; no step of a call writes
\* state another call reads; no response to one submission's request appears
\* among the responses behind another submission's result.
C22_CallsIsolated == [](\A c \in Submissions : ResultIsOwn(c)) /\ [][StepIsOwn]_vars

C22_Witness ==
    /\ calls["s1"].pc = "waiting"
    /\ calls["s1"].question_type = "multiple_choice"
    /\ calls["s1"].responses = <<Text(<<"bad">>, Num(80))>>
    /\ calls["s2"].pc = "returned"
    /\ calls["s2"].question_type = "essay"
    /\ calls["s2"].responses = <<Raise, Text(PlainObject, Num(60))>>
    /\ calls["s2"].result = [score |-> 60, feedback |-> "oracle feedback",
                             is_correct |-> TRUE]

-----------------------------------------------------------------------------
(* C23: the answers of a session and its position *)

\* The answers are aligned with the questions and as many as the position.
Aligned ==
    /\ Len(session.answers_data) = session.current_question
    /\ session.current_question <= Len(session.questions_data)
    /\ \A i \in 1..Len(session.answers_data) :
           /\ i <= Len(session.questions_data)
           /\ session.answers_data[i].question_id = session.questions_data[i].id

\* A step in which submit_answer accepted a submission.
AcceptedSubmission ==
    /\ reply'.op = "answer"
    /\ reply'.code = 200
    /\ session' # session

\* An accepted submission appends one result, for the question at the
\* position, moves the position by one and keeps the earlier entries; it
\* completes the session exactly when it answers the last question.
AppendsOne ==
    AcceptedSubmission =>
        /\ Len(session'.answers_data) = Len(session.answers_data) + 1
        /\ SubSeq(session'.answers_data, 1, Len(session.answers_data)) = session.answers_data
        /\ session'.answers_data[Len(session'.answers_data)].question_id =
               session.questions_data[session.current_question + 1].id
        /\ session'.current_question = session.current_question + 1
        /\ session'.questions_data = session.questions_data
        /\ session'.status = "completed" <=>
               session'.current_question = Len(session.questions_data)

\* C23: in every reachable state of a session len(answers_data) ==
\* current_question <= len(questions_data) and answers_data[i].question_id ==
\* questions_data[i].id for every i; each accepted submit_answer appends
\* exactly one result, for questions_data[current_question] whatever
\* question_id the request names, increments current_question and neither
\* changes nor removes an earlier entry; the status becomes completed exactly
\* on the submission that makes current_question == len(questions_data).
C23_AnswersAligned == []Aligned /\ [][AppendsOne]_vars

-----------------------------------------------------------------------------
(* C24 and C26: the result of an evaluation (EvalSpec) *)

\* C24: every result the evaluation returns carries a source field, oracle
\* for a result taken from a successfully parsed response and fallback for a
\* result returned without a client or after every tier failed.
C24_SourceField ==
    (pc = "returned" /\ ~raised) =>
        /\ "source" \in DOMAIN result
        /\ result.source =
              IF Len(responses) > 0 /\ Accepted(question_type, LastResponse)
              THEN "oracle" ELSE "fallback"

\* C26: a result returned for a short_answer or essay question has
\* is_correct exactly when its score is at least 6.0: on the oracle path,
\* where the score is the clamped one, and on both fallback paths, where the
\* score is 8.5 with a match and 4.5 without.
C26_SubjectiveThreshold ==
    (pc = "returned" /\ ~raised /\ question_type \notin ObjectiveTypes) =>
        /\ result.is_correct <=> (result.score >= 60)
        /\ (Len(responses) > 0 /\ Accepted(question_type, LastResponse)) =>
               result.score \in 10..100
        /\ (Len(responses) = 0 \/ ~Accepted(question_type, LastResponse)) =>
               result.score = IF simple_result THEN 85 ELSE 45

C26_Witness ==
    /\ pc = "returned"
    /\ question_type = "essay"
    /\ Len(responses) = 2
    /\ LastResponse = Text(PlainObject, Num(59))
    /\ result.score = 59
    /\ ~result.is_correct
    /\ simple_result

-----------------------------------------------------------------------------
(* C25: a completed session *)

\* C25: on a completed session every submit_answer and every
\* complete_exam_session is rejected with HTTP 400 and leaves status,
\* current_question, answers_data, end_time and final_score as they were;
\* submit_answer is rejected in the same way on a session whose status is
\* neither started nor in_progress or whose current_question has reached
\* len(questions_data).
C25_CompletedAbsorbing ==
    [][/\ (session.status = "completed" /\ reply'.op \in {"answer", "complete"}) =>
              (reply'.code = 400 /\ session' = session)
       /\ (/\ session.status # "none"
           /\ reply'.op = "answer"
           /\ \/ session.status \notin {"started", "in_progress"}
              \/ session.current_question >= Len(session.questions_data)) =>
              (reply'.code = 400 /\ session' = session)]_vars

C25_Witness ==
    /\ session.status = "completed"
    /\ session.current_question = 1
    /\ Len(session.questions_data) = 2
    /\ session.final_score = <<10, 1>>
    /\ reply = Reply("answer", 400, NoScore)

-----------------------------------------------------------------------------
(* C27 and C28: answers the matcher must not accept (MatchSpec) *)

\* C27: a student answer that is empty or only whitespace is not judged a
\* match against a correct answer that is not empty, whatever the question
\* type.
C27_EmptyStudentNoMatch ==
    (/\ verdict.called
     /\ StripStr(student_answer) = << >>
     /\ StripStr(correct_answer) # << >>) =>
        ~verdict.result

\* The answer is "L) text" for an option letter L, in either case.
LetterAndText(s) ==
    /\ Len(s) >= 3
    /\ Upper(s)[1] \in OptionLetters
    /\ s[2] = ")"

\* C28: for a multiple_choice question whose correct answer is "L) text", a
\* student answer that is a single option letter other than L is judged not
\* matching; so the student answer "A" does not match "B) Paris".
C28_OtherLetterNoMatch ==
    LET student == StripStr(Upper(student_answer))
        correct == StripStr(correct_answer)
    IN  (/\ verdict.called
         /\ question_type = "multiple_choice"
         /\ LetterAndText(correct)
         /\ Len(student) = 1
         /\ student[1] \in OptionLetters
         /\ student[1] # Upper(correct)[1]) =>
            ~verdict.result

-----------------------------------------------------------------------------
(* C29: a response without a score (EvalSpec) *)

\* The response text {}: a JSON object without a score member.
EmptyObject == Text(<<"{", "}">>, Num(80))

-----------------------------------------------------------------------------
(* C30: the composite score and the correctness of an answer (ScoreSpec) *)

\* answers with answer i counted correct.
Corrected(answers, i) == [answers EXCEPT ![i].is_correct = TRUE]

\* The fraction a is less than the fraction b.
Less(a, b) == a[1] * b[2] < b[1] * a[2]

=============================================================================
